---- MODULE Spec2Model ----
(***************************************************************************)
(* Token layer of rs-typed-parser (src/src/token.rs): the TokenDef         *)
(* contract, the type-erased TokenType handle, the AnyToken it produces,   *)
(* the built-in Eof kind and the kinds generated by _define_token!.        *)
(*                                                                         *)
(* Text is a sequence of one-character strings.  Option<T> and a panic are *)
(* tagged records: [tag |-> "None"], [tag |-> "Some", val |-> v],          *)
(* [tag |-> "Panic"].                                                      *)
(***************************************************************************)
EXTENDS Integers, Sequences, FiniteSets, TLC

VARIABLES
    src,       \* the source text being lexed
    typeIds,   \* the build's TypeId of every kind
    cell,      \* per regex kind: its static PATTERN cell
    compiles,  \* per regex kind: how often its pattern was compiled
    pc,        \* per thread: where it is in its call
    call,      \* per thread: the call it is in, with its arguments
    obs,       \* per thread: the &PATTERN its try_lex got from the cell
    inner,     \* per thread: what the kind's own try_lex returned
    ret        \* per thread: what its call returned

vars == <<src, typeIds, cell, compiles, pc, call, obs, inner, ret>>

(***************************************************************************)
(* Bounds of the model.                                                    *)
(***************************************************************************)
\* copies of one kind's promoted TokenType constant the build may emit
MaxInst == 2
\* length of the generated source texts
MaxSrcLen == 2
\* threads lexing concurrently
NumThreads == 2

None == [tag |-> "None"]
Some(v) == [tag |-> "Some", val |-> v]
Panic == [tag |-> "Panic"]

(***************************************************************************)
(* Location and LocationRange (crate::parse), as token.rs uses them: a     *)
(* byte offset `position`, and a pair {start, end} of locations.           *)
(***************************************************************************)
Location(p) == [position |-> p]
LocationRange(s, e) == [start |-> s, end |-> e]

\* &src[a..b]: the bytes a .. b-1 (0-based, half-open)
Slice(s, a, b) == SubSeq(s, a + 1, b)

RECURSIVE Flatten(_)
Flatten(ss) == IF ss = <<>> THEN <<>> ELSE Head(ss) \o Flatten(Tail(ss))

(***************************************************************************)
(* The regex engine (the `regex` crate), for the pattern syntax the        *)
(* declared kinds use: literals, \d, \A, ( ), |, and the greedy + * ?.     *)
(* Alternation binds loosest; groups are numbered by their opening         *)
(* parenthesis; the search is leftmost-first.                              *)
(***************************************************************************)
Digits == {"0", "1", "2", "3", "4", "5", "6", "7", "8", "9"}
Quantifiers == {"+", "*", "?"}

ParseError == [ok |-> FALSE]
Parsed(n, i, ng) == [ok |-> TRUE, node |-> n, i |-> i, ng |-> ng]

RECURSIVE ParseAlt(_, _, _), ParseCat(_, _, _), ParseRep(_, _, _), ParseAtom(_, _, _)
RECURSIVE AltRest(_, _), CatRest(_, _)

\* the group g whose body was parsed: its ) must follow
CloseGroup(p, g, body) ==
    IF body.ok /\ body.i <= Len(p) /\ p[body.i] = ")"
    THEN Parsed([t |-> "grp", i |-> g, x |-> body.node], body.i + 1, body.ng)
    ELSE ParseError

\* one atom at p[i]; ng groups have been opened so far
ParseAtom(p, i, ng) ==
    IF i > Len(p) THEN ParseError
    ELSE IF p[i] = "(" THEN CloseGroup(p, ng + 1, ParseAlt(p, i + 1, ng + 1))
    ELSE IF p[i] = "\\" THEN
        IF i + 1 <= Len(p) /\ p[i + 1] = "d" THEN Parsed([t |-> "dig"], i + 2, ng)
        ELSE IF i + 1 <= Len(p) /\ p[i + 1] = "A" THEN Parsed([t |-> "bot"], i + 2, ng)
        ELSE ParseError
    ELSE IF p[i] \in Quantifiers \cup {")", "|"} THEN ParseError
    ELSE Parsed([t |-> "chr", c |-> p[i]], i + 1, ng)

\* the atom a and the quantifier that may follow it
Quantify(p, a) ==
    IF a.ok /\ a.i <= Len(p) /\ p[a.i] \in Quantifiers
    THEN Parsed([t |-> "rep", q |-> p[a.i], x |-> a.node], a.i + 1, a.ng)
    ELSE a

ParseRep(p, i, ng) == Quantify(p, ParseAtom(p, i, ng))

CatJoin(r, rest) ==
    IF ~rest.ok THEN rest
    ELSE Parsed([t |-> "cat", l |-> r.node, r |-> rest.node], rest.i, rest.ng)

CatRest(p, r) == IF ~r.ok THEN r ELSE CatJoin(r, ParseCat(p, r.i, r.ng))

\* a concatenation, up to the next | or ) or the end
ParseCat(p, i, ng) ==
    IF i > Len(p) \/ p[i] \in {"|", ")"} THEN Parsed([t |-> "eps"], i, ng)
    ELSE CatRest(p, ParseRep(p, i, ng))

AltJoin(c, r) ==
    IF ~r.ok THEN r
    ELSE Parsed([t |-> "alt", l |-> c.node, r |-> r.node], r.i, r.ng)

AltRest(p, c) ==
    IF ~c.ok THEN c
    ELSE IF c.i <= Len(p) /\ p[c.i] = "|" THEN AltJoin(c, ParseAlt(p, c.i + 1, c.ng))
    ELSE c

\* an alternation of concatenations
ParseAlt(p, i, ng) == AltRest(p, ParseCat(p, i, ng))

\* the whole pattern must have been read
WholePattern(pattern, r) ==
    IF r.ok /\ r.i = Len(pattern) + 1
    THEN [ok |-> TRUE, prog |-> r.node, ngroups |-> r.ng]
    ELSE [ok |-> FALSE]

\* Regex::new(pattern): the compiled program, or a syntax error
RegexNew(pattern) == WholePattern(pattern, ParseAlt(pattern, 1, 0))

Unset == <<-1, -1>>

RECURSIVE Match(_, _, _), MatchAll(_, _, _), MatchStar(_, _, _), StarAll(_, _, _)

\* group g, entered at `from`, in each of the results
SetGroup(g, from, results) ==
    [k \in 1..Len(results) |-> [results[k] EXCEPT !.caps[g] = <<from, results[k].pos>>]]

\* the results that consumed something after st
Progress(st, results) == SelectSeq(results, LAMBDA r : r.pos > st.pos)

\* every way node n matches hay from state st = [pos, caps], preferred first
Match(n, hay, st) ==
    CASE n.t = "eps" -> <<st>>
      [] n.t = "chr" -> IF st.pos < Len(hay) /\ hay[st.pos + 1] = n.c
                        THEN <<[st EXCEPT !.pos = @ + 1]>> ELSE <<>>
      [] n.t = "dig" -> IF st.pos < Len(hay) /\ hay[st.pos + 1] \in Digits
                        THEN <<[st EXCEPT !.pos = @ + 1]>> ELSE <<>>
      [] n.t = "bot" -> IF st.pos = 0 THEN <<st>> ELSE <<>>
      [] n.t = "cat" -> MatchAll(n.r, hay, Match(n.l, hay, st))
      [] n.t = "alt" -> Match(n.l, hay, st) \o Match(n.r, hay, st)
      [] n.t = "grp" -> SetGroup(n.i, st.pos, Match(n.x, hay, st))
      [] n.t = "rep" -> CASE n.q = "?" -> Match(n.x, hay, st) \o <<st>>
                          [] n.q = "*" -> MatchStar(n.x, hay, st)
                          [] n.q = "+" -> StarAll(n.x, hay, Match(n.x, hay, st))

MatchAll(n, hay, sts) == Flatten([k \in 1..Len(sts) |-> Match(n, hay, sts[k])])

StarAll(x, hay, sts) == Flatten([k \in 1..Len(sts) |-> MatchStar(x, hay, sts[k])])

\* greedy x*: as many x as possible first; an empty iteration ends it
MatchStar(x, hay, st) == StarAll(x, hay, Progress(st, Match(x, hay, st))) \o <<st>>

RECURSIVE SearchFrom(_, _, _)

FirstOrNext(re, hay, start, found) ==
    IF found = <<>> THEN SearchFrom(re, hay, start + 1)
    ELSE Some([whole |-> <<start, found[1].pos>>, caps |-> found[1].caps])

SearchFrom(re, hay, start) ==
    IF start > Len(hay) THEN None
    ELSE FirstOrNext(re, hay, start,
                     Match(re.prog, hay,
                           [pos |-> start, caps |-> [g \in 1..re.ngroups |-> Unset]]))

\* Regex::captures(hay): the leftmost match, searched from every start
Captures(re, hay) == SearchFrom(re, hay, 0)

\* Captures::get(i): the extent of group i, None when it took no part
CapturesGet(caps, i) ==
    IF i = 0 THEN Some(caps.whole)
    ELSE IF caps.caps[i] = Unset THEN None
    ELSE Some(caps.caps[i])

(***************************************************************************)
(* The declared kinds: Eof (built in), and kinds as define_token! declares *)
(* them.  `ident` is the struct's name, `pattern` the literal's value and  *)
(* `token` the literal as written in the declaration, `cap` the capture    *)
(* index (0 when the declaration gives none).                              *)
(*                                                                         *)
(*   #[pattern(exact = "let")] struct Let;                                 *)
(*   #[pattern(exact = "let")] struct Kw;                                  *)
(*   #[pattern(regex = r"(\d+)px", capture = 1)] struct Px;                *)
(*   #[pattern(regex = r"a(b)", capture = 1)] struct Tail;                 *)
(*   #[pattern(regex = r"a|b")] struct AB;                                 *)
(*   #[pattern(regex = r"(a")] struct Bad;                                 *)
(*   #[pattern(regex = r"a", capture = 1)] struct BadCap;                  *)
(***************************************************************************)
KindSeq == <<"Eof", "Let", "Kw", "Px", "Tail", "AB", "Bad", "BadCap">>
Kinds == {KindSeq[i] : i \in 1..Len(KindSeq)}
KindIndex(k) == CHOOSE i \in 1..Len(KindSeq) : KindSeq[i] = k

\* a plain string literal as written: its value between double quotes
StrLit(v) == <<"\"">> \o v \o <<"\"">>
Decl(k) ==
    CASE k = "Eof"    -> [form |-> "eof", ident |-> <<"E", "o", "f">>]
      [] k = "Let"    -> [form |-> "exact", ident |-> <<"L", "e", "t">>,
                          pattern |-> <<"l", "e", "t">>, token |-> StrLit(<<"l", "e", "t">>)]
      [] k = "Kw"     -> [form |-> "exact", ident |-> <<"K", "w">>,
                          pattern |-> <<"l", "e", "t">>, token |-> StrLit(<<"l", "e", "t">>)]
      [] k = "Px"     -> [form |-> "regex", ident |-> <<"P", "x">>, cap |-> 1,
                          pattern |-> <<"(", "\\", "d", "+", ")", "p", "x">>]
      [] k = "Tail"   -> [form |-> "regex", ident |-> <<"T", "a", "i", "l">>, cap |-> 1,
                          pattern |-> <<"a", "(", "b", ")">>]
      [] k = "AB"     -> [form |-> "regex", ident |-> <<"A", "B">>, cap |-> 0,
                          pattern |-> <<"a", "|", "b">>]
      [] k = "Bad"    -> [form |-> "regex", ident |-> <<"B", "a", "d">>, cap |-> 0,
                          pattern |-> <<"(", "a">>]
      [] k = "BadCap" -> [form |-> "regex", ident |-> <<"B", "a", "d", "C", "a", "p">>,
                          cap |-> 1, pattern |-> <<"a">>]

RegexKinds == {k \in Kinds : Decl(k).form = "regex"}
ExactKinds == {k \in Kinds : Decl(k).form = "exact"}

(***************************************************************************)
(* crate::parse::lex_exact and lex_regex, and the cell _lazy_regex!        *)
(* declares.                                                               *)
(***************************************************************************)
\* lex_exact(pattern, src, location)
lex_exact(pattern, s, location) ==
    LET p == location.position IN
    IF p + Len(pattern) <= Len(s) /\ Slice(s, p, p + Len(pattern)) = pattern
    THEN Some(LocationRange(location, Location(p + Len(pattern))))
    ELSE None

\* the extent g of the group, moved by the location
GroupRange(p, g) ==
    IF g = None THEN None
    ELSE Some(LocationRange(Location(p + g.val[1]), Location(p + g.val[2])))

CapturedRange(p, capture, caps) ==
    IF caps = None THEN None ELSE GroupRange(p, CapturesGet(caps.val, capture))

\* lex_regex(regex, capture, src, location): a capture index the pattern
\* does not have is a pattern-definition failure; otherwise the extent of
\* the group in the match found in src[location..], moved by location
lex_regex(regex, capture, s, location) ==
    IF capture > regex.ngroups THEN Panic
    ELSE CapturedRange(location.position, capture,
                       Captures(regex, Slice(s, location.position, Len(s))))

\* the states of a lazily initialised static
Uninit == [st |-> "uninit"]
Running == [st |-> "running"]
Poisoned == [st |-> "poisoned"]
Ready(gen) == [st |-> "ready", gen |-> gen]

\* what the initialiser leaves in the cell: the compiled pattern (the
\* gen-th one compiled for this kind), or a poisoned cell when
\* Regex::new fails and the initialiser panics
LazyInit(pattern, gen) ==
    IF RegexNew(pattern).ok THEN Ready(gen) ELSE Poisoned

\* may a thread that dereferences the cell go on (it does not have to wait)
LazyCanPass(c) == c.st # "running"

\* does the dereferencing thread become the one that runs the initialiser
LazyClaims(c) == c.st = "uninit"

(***************************************************************************)
(* TokenDef: the per-kind functions (token.rs 14-37, 111-122, 135-173).    *)
(***************************************************************************)
\* T::name()
name(k) ==
    CASE Decl(k).form = "eof"   -> <<"e", "n", "d", "-", "o", "f", "-", "f", "i", "l", "e">>
      [] Decl(k).form = "exact" -> <<"'">> \o Decl(k).pattern \o <<"'">>
      [] Decl(k).form = "regex" -> Decl(k).ident

\* Eof::try_lex with > for >=
Eof_try_lex_strict(s, location) ==
    IF location.position > Len(s)
    THEN Some(LocationRange(location, location))
    ELSE None

\* Eof::try_lex
Eof_try_lex(s, location) ==
    IF location.position >= Len(s)
    THEN Some(LocationRange(location, location))
    ELSE None

\* the exact form's try_lex handing lex_exact the kind's name, not its literal
exact_try_lex_named(k, s, location) == lex_exact(name(k), s, location)

\* the exact form's try_lex
exact_try_lex(k, s, location) == lex_exact(Decl(k).pattern, s, location)

\* static ref PATTERN => concat!(r"\A", $pattern)
PATTERN(k) == <<"\\", "A">> \o Decl(k).pattern

\* the regex form's try_lex without the `+ $cap`
regex_try_lex_whole(k, s, location) ==
    lex_regex(RegexNew(PATTERN(k)), 0, s, location)

\* the regex form's try_lex, once &PATTERN is a compiled regex
regex_try_lex(k, s, location) ==
    lex_regex(RegexNew(PATTERN(k)), 0 + Decl(k).cap, s, location)

\* the literal's value in place of its text
StringifyValue(k) == Decl(k).pattern

\* stringify!($pattern): the literal as the declaration writes it
Stringify(k) == Decl(k).token

\* {:?} of a str: quoted, with " and \ escaped
EscapeDebug(s) ==
    Flatten([i \in 1..Len(s) |-> IF s[i] \in {"\"", "\\"} THEN <<"\\", s[i]>> ELSE <<s[i]>>])
DebugStr(s) == <<"\"">> \o EscapeDebug(s) \o <<"\"">>

\* T::print_debug(src, range, f): what is written to f
print_debug(k, s, range) ==
    LET text == Slice(s, range.start.position, range.end.position) IN
    CASE Decl(k).form = "eof"   -> name(k) \o <<"(">> \o DebugStr(text) \o <<")">>
      [] Decl(k).form = "exact" -> Decl(k).ident \o <<"(">> \o DebugStr(text) \o <<")">>
      [] Decl(k).form = "regex" -> <<"<">> \o Decl(k).ident \o <<" ">> \o DebugStr(text) \o <<">">>

\* T::print_display(src, range, f): what is written to f
print_display(k, s, range) ==
    IF Decl(k).form = "exact" THEN Stringify(k) ELSE print_debug(k, s, range)

(***************************************************************************)
(* TokenType: the type-erased handle (token.rs 45-106).  A handle is a     *)
(* static at an address holding three function references, each named by  *)
(* the kind whose function it is.                                          *)
(***************************************************************************)
\* where the build puts the i-th copy of kind k's promoted constant
Address(k, i) == (i - 1) * Len(KindSeq) + KindIndex(k)

\* TokenType::of::<T>(), when it yields the i-th copy
TokenType_of(k, i) ==
    [addr |-> Address(k, i), name |-> k, token_id |-> k, try_lex |-> k]

Handles == {TokenType_of(k, i) : k \in Kinds, i \in 1..MaxInst}

\* TokenType::token_id: TypeId::of::<T>() under the build's assignment
token_id(ids, h) == ids[h.token_id]

\* TokenType::name
TokenType_name(h) == name(h.name)

\* ptr::eq
ptr_eq(a, b) == a.addr = b.addr

\* eq by address alone
eq_ptr_only(ids, a, b) == ptr_eq(a, b)

\* PartialEq::eq
eq(ids, a, b) == ptr_eq(a, b) \/ token_id(ids, a) = token_id(ids, b)

\* cmp by address
cmp_by_addr(ids, a, b) ==
    IF a.addr < b.addr THEN "Less"
    ELSE IF a.addr = b.addr THEN "Equal"
    ELSE "Greater"

\* Ord::cmp
cmp(ids, a, b) ==
    IF token_id(ids, a) < token_id(ids, b) THEN "Less"
    ELSE IF token_id(ids, a) = token_id(ids, b) THEN "Equal"
    ELSE "Greater"

\* PartialOrd::partial_cmp, and the < it gives
partial_cmp(ids, a, b) == Some(cmp(ids, a, b))
lt(ids, a, b) == partial_cmp(ids, a, b) = Some("Less")

\* Hash::hash: what is fed to the hasher
hash(ids, h) == <<token_id(ids, h)>>

\* try_lex putting the kind's first handle in the token, not self
TokenType_try_lex_first_copy(h, r) ==
    CASE r.tag = "Some"  -> Some([token_type |-> TokenType_of(h.try_lex, 1), range |-> r.val])
      [] r.tag = "None"  -> None
      [] r.tag = "Panic" -> Panic

\* TokenType::try_lex, given what (self.try_lex)(src, location) returned
TokenType_try_lex(h, r) ==
    CASE r.tag = "Some"  -> Some([token_type |-> h, range |-> r.val])
      [] r.tag = "None"  -> None
      [] r.tag = "Panic" -> Panic

(***************************************************************************)
(* Inputs.                                                                 *)
(***************************************************************************)
Alphabet == {"a", "b"}

Strings(n) == UNION {[1..m -> Alphabet] : m \in 0..n}

ExampleSources ==
    { <<"l", "e", "t", " ", "x", " ", "=", " ", "1">>,
      <<"l", "e", "t">>,
      <<"1", "2", "p", "x">>,
      <<"h", "e", "l", "l", "o">>,
      <<"1", "b">>,
      <<"\"", "a">> }

Sources == ExampleSources \cup Strings(MaxSrcLen)

\* assignments of TypeIds to the kinds: by declaration order, against it,
\* and scattered
DeclOrderIds == [k \in Kinds |-> KindIndex(k)]

TypeIdMaps ==
    { DeclOrderIds,
      [k \in Kinds |-> Len(KindSeq) + 1 - KindIndex(k)],
      [k \in Kinds |-> (KindIndex(k) * 3) % 11] }

Threads == 1..NumThreads
Main == CHOOSE t \in Threads : \A u \in Threads : t <= u

Idle == [op |-> "idle"]
NoValue == [tag |-> "NoValue"]

(***************************************************************************)
(* The state after start-up: no pattern compiled, every thread idle.       *)
(***************************************************************************)
InitRest ==
    /\ cell = [k \in RegexKinds |-> Uninit]
    /\ compiles = [k \in RegexKinds |-> 0]
    /\ pc = [t \in Threads |-> "idle"]
    /\ call = [t \in Threads |-> Idle]
    /\ obs = [t \in Threads |-> NoValue]
    /\ inner = [t \in Threads |-> NoValue]
    /\ ret = [t \in Threads |-> NoValue]

KindOf(t) == call[t].h.try_lex

Finish(t, in) ==
    /\ inner' = [inner EXCEPT ![t] = in]
    /\ ret' = [ret EXCEPT ![t] = TokenType_try_lex(call[t].h, in)]
    /\ pc' = [pc EXCEPT ![t] = "done"]

(***************************************************************************)
(* h.try_lex(src, location).  A location lies in [0, len(src)]; Eof also   *)
(* answers for one past the end.                                           *)
(***************************************************************************)
Begin(t, h, l) ==
    /\ pc[t] = "idle"
    /\ h.try_lex = "Eof" \/ l <= Len(src)
    /\ pc' = [pc EXCEPT ![t] = "entered"]
    /\ call' = [call EXCEPT ![t] = [op |-> "try_lex", h |-> h, location |-> Location(l)]]
    /\ UNCHANGED <<src, typeIds, cell, compiles, obs, inner, ret>>

\* a kind without a pattern cell: Eof, or an exact literal
Direct(t) ==
    /\ pc[t] = "entered"
    /\ call[t].op = "try_lex"
    /\ Decl(KindOf(t)).form # "regex"
    /\ Finish(t, IF Decl(KindOf(t)).form = "eof"
                 THEN Eof_try_lex(src, call[t].location)
                 ELSE exact_try_lex(KindOf(t), src, call[t].location))
    /\ UNCHANGED <<src, typeIds, cell, compiles, call, obs>>

\* a pattern that is a local of try_lex, compiled by every call
Deref_compiled_by_each_call(t) ==
    /\ pc[t] = "entered"
    /\ call[t].op = "try_lex"
    /\ Decl(KindOf(t)).form = "regex"
    /\ pc' = [pc EXCEPT ![t] = "init"]
    /\ UNCHANGED <<src, typeIds, cell, compiles, call, obs, inner, ret>>

\* a regex kind, &PATTERN: the first thread to come runs the initialiser,
\* others wait while it runs; a later one gets the compiled pattern, or
\* the panic of a poisoned cell
Deref(t) ==
    /\ pc[t] = "entered"
    /\ call[t].op = "try_lex"
    /\ Decl(KindOf(t)).form = "regex"
    /\ LazyCanPass(cell[KindOf(t)])
    /\ IF LazyClaims(cell[KindOf(t)])
       THEN /\ cell' = [cell EXCEPT ![KindOf(t)] = Running]
            /\ pc' = [pc EXCEPT ![t] = "init"]
            /\ UNCHANGED <<obs, inner, ret>>
       ELSE IF cell[KindOf(t)].st = "poisoned"
       THEN /\ Finish(t, Panic)
            /\ UNCHANGED <<cell, obs>>
       ELSE /\ obs' = [obs EXCEPT ![t] = cell[KindOf(t)]]
            /\ pc' = [pc EXCEPT ![t] = "lex"]
            /\ UNCHANGED <<cell, inner, ret>>
    /\ UNCHANGED <<src, typeIds, compiles, call>>

\* the initialiser: Regex::new(PATTERN).unwrap()
Initialize(t) ==
    /\ pc[t] = "init"
    /\ LET c == LazyInit(PATTERN(KindOf(t)), compiles[KindOf(t)] + 1) IN
       /\ cell' = [cell EXCEPT ![KindOf(t)] = c]
       /\ compiles' = [compiles EXCEPT ![KindOf(t)] = @ + 1]
       /\ IF c.st = "ready"
          THEN /\ obs' = [obs EXCEPT ![t] = c]
               /\ pc' = [pc EXCEPT ![t] = "lex"]
               /\ UNCHANGED <<inner, ret>>
          ELSE /\ Finish(t, Panic)
               /\ UNCHANGED obs
    /\ UNCHANGED <<src, typeIds, call>>

\* lex_regex(&PATTERN, 0 + cap, src, location)
Lex(t) ==
    /\ pc[t] = "lex"
    /\ Finish(t, regex_try_lex(KindOf(t), src, call[t].location))
    /\ UNCHANGED <<src, typeIds, cell, compiles, call, obs>>

(***************************************************************************)
(* a == b, a < b, b < a and the hashes of two handles.                     *)
(***************************************************************************)
Compare(t, a, b) ==
    /\ pc[t] = "idle"
    /\ pc' = [pc EXCEPT ![t] = "done"]
    /\ call' = [call EXCEPT ![t] = [op |-> "compare", a |-> a, b |-> b]]
    /\ ret' = [ret EXCEPT ![t] = [eq |-> eq(typeIds, a, b),
                                  lt |-> lt(typeIds, a, b),
                                  gt |-> lt(typeIds, b, a),
                                  hash_a |-> hash(typeIds, a),
                                  hash_b |-> hash(typeIds, b)]]
    /\ UNCHANGED <<src, typeIds, cell, compiles, obs, inner>>

(***************************************************************************)
(* T::print_debug and T::print_display on a range of src.                  *)
(***************************************************************************)
PrintDebug(t, k, s, e) ==
    /\ pc[t] = "idle"
    /\ s <= e /\ e <= Len(src)
    /\ pc' = [pc EXCEPT ![t] = "done"]
    /\ call' = [call EXCEPT ![t] = [op |-> "print_debug", kind |-> k,
                                    range |-> LocationRange(Location(s), Location(e))]]
    /\ ret' = [ret EXCEPT ![t] =
                  Some(print_debug(k, src, LocationRange(Location(s), Location(e))))]
    /\ UNCHANGED <<src, typeIds, cell, compiles, obs, inner>>

PrintDisplay(t, k, s, e) ==
    /\ pc[t] = "idle"
    /\ s <= e /\ e <= Len(src)
    /\ pc' = [pc EXCEPT ![t] = "done"]
    /\ call' = [call EXCEPT ![t] = [op |-> "print_display", kind |-> k,
                                    range |-> LocationRange(Location(s), Location(e))]]
    /\ ret' = [ret EXCEPT ![t] =
                  Some(print_display(k, src, LocationRange(Location(s), Location(e))))]
    /\ UNCHANGED <<src, typeIds, cell, compiles, obs, inner>>

\* the call is over; the thread goes on to its next one
Return(t) ==
    /\ pc[t] = "done"
    /\ pc' = [pc EXCEPT ![t] = "idle"]
    /\ call' = [call EXCEPT ![t] = Idle]
    /\ obs' = [obs EXCEPT ![t] = NoValue]
    /\ inner' = [inner EXCEPT ![t] = NoValue]
    /\ ret' = [ret EXCEPT ![t] = NoValue]
    /\ UNCHANGED <<src, typeIds, cell, compiles>>

(***************************************************************************)
(* Spec: one thread lexes and prints over any source.                      *)
(***************************************************************************)
Init ==
    /\ src \in Sources
    /\ typeIds = DeclOrderIds
    /\ InitRest

Next ==
    \/ \E h \in Handles, l \in 0..(Len(src) + 1) : Begin(Main, h, l)
    \/ Direct(Main)
    \/ Deref(Main)
    \/ Initialize(Main)
    \/ Lex(Main)
    \/ \E k \in Kinds, s, e \in 0..Len(src) : PrintDebug(Main, k, s, e)
    \/ \E k \in Kinds, s, e \in 0..Len(src) : PrintDisplay(Main, k, s, e)
    \/ Return(Main)

Spec == Init /\ [][Next]_vars

(***************************************************************************)
(* SpecIdentity: handles are compared, under any assignment of TypeIds.    *)
(***************************************************************************)
InitIdentity ==
    /\ src = <<>>
    /\ typeIds \in TypeIdMaps
    /\ InitRest

NextIdentity ==
    \/ \E a, b \in Handles : Compare(Main, a, b)
    \/ Return(Main)

SpecIdentity == InitIdentity /\ [][NextIdentity]_vars

(***************************************************************************)
(* SpecLazy: several threads use regex kinds at once.                      *)
(***************************************************************************)
LazySources == {<<"1", "p", "x">>}
LazyKinds == {"Px", "Bad", "BadCap"}

InitLazy ==
    /\ src \in LazySources
    /\ typeIds = DeclOrderIds
    /\ InitRest

NextLazy ==
    \E t \in Threads :
        \/ \E k \in LazyKinds, l \in 0..Len(src) : Begin(t, TokenType_of(k, 1), l)
        \/ Deref(t)
        \/ Initialize(t)
        \/ Lex(t)
        \/ Return(t)

SpecLazy == InitLazy /\ [][NextLazy]_vars
(***************************************************************************)
(* Properties.                                                             *)
(***************************************************************************)
Compared(t) == pc[t] = "done" /\ call[t].op = "compare"
Lexed(t) == pc[t] = "done" /\ call[t].op = "try_lex"
Printed(t, op) == pc[t] = "done" /\ call[t].op = op

SameKind(a, b) ==
    \E k \in Kinds, i, j \in 1..MaxInst : a = TokenType_of(k, i) /\ b = TokenType_of(k, j)

\* C1: two handles TokenType::of yields for one kind, at the same address
\* or not, are ==, feed the hasher the same value, and neither is < the
\* other.
C1_SameKindHandlesAgree ==
    \A t \in Threads :
        Compared(t) /\ SameKind(call[t].a, call[t].b) =>
            /\ ret[t].eq
            /\ ret[t].hash_a = ret[t].hash_b
            /\ ~ret[t].lt
            /\ ~ret[t].gt

\* two copies of one kind's handle, at different addresses, were compared
C1_Witness ==
    \E t \in Threads :
        /\ Compared(t)
        /\ SameKind(call[t].a, call[t].b)
        /\ call[t].a.addr # call[t].b.addr
        /\ ret[t].eq

\* C2: handles of two distinct kinds are unequal and exactly one of a < b,
\* b < a holds; which one is decided by the kinds' TypeIds alone, whatever
\* their names, addresses and bound functions.
C2_DistinctKindsOrdered ==
    \A t \in Threads :
        Compared(t) /\ ~SameKind(call[t].a, call[t].b) =>
            /\ ~ret[t].eq
            /\ ret[t].lt # ret[t].gt
            /\ ret[t].lt = (typeIds[call[t].a.token_id] < typeIds[call[t].b.token_id])

\* two kinds of one name were compared, and the later declared came first
C2_Witness ==
    \E t \in Threads :
        /\ Compared(t)
        /\ call[t].a.token_id = "Let"
        /\ call[t].b.token_id = "Kw"
        /\ TokenType_name(call[t].a) = TokenType_name(call[t].b)
        /\ ret[t].gt
        /\ ~ret[t].eq

\* C3: h.try_lex(s, l) is None exactly when the bound try_lex is None, and
\* when that returns a span the result is the token of h itself with
\* exactly that span (a panic of the bound try_lex passes through).
C3_HandleWrapsBoundLex ==
    \A t \in Threads :
        Lexed(t) =>
            /\ (ret[t] = None) = (inner[t] = None)
            /\ (ret[t].tag = "Some") = (inner[t].tag = "Some")
            /\ ret[t].tag = "Some" =>
                  /\ ret[t].val.token_type = call[t].h
                  /\ ret[t].val.range = inner[t].val

\* the second copy of Let's handle matched, and the token carries it
C3_Witness ==
    \E t \in Threads :
        /\ Lexed(t)
        /\ call[t].h = TokenType_of("Let", 2)
        /\ ret[t].tag = "Some"
        /\ ret[t].val.token_type.addr = Address("Let", 2)

\* C4: Eof's try_lex returns the empty span [l, l) when l.position >=
\* len(s), and None otherwise.
C4_EofAtOrPastEnd ==
    \A t \in Threads :
        Lexed(t) /\ KindOf(t) = "Eof" =>
            inner[t] = IF call[t].location.position >= Len(src)
                       THEN Some([start |-> call[t].location, end |-> call[t].location])
                       ELSE None

\* Eof matched at offset 5 of a source of length 5
C4_Witness ==
    \E t \in Threads :
        /\ Lexed(t)
        /\ KindOf(t) = "Eof"
        /\ Len(src) = 5
        /\ inner[t] = Some([start |-> [position |-> 5], end |-> [position |-> 5]])

\* C5: whatever the kind, a span returned for a location in [0, len(s)]
\* starts at that location and ends in [start, len(s)].
C5_SpanStartsAtLocation ==
    \A t \in Threads :
        Lexed(t) /\ call[t].location.position <= Len(src) /\ inner[t].tag = "Some" =>
            /\ inner[t].val.start = call[t].location
            /\ inner[t].val.start.position <= inner[t].val.end.position
            /\ inner[t].val.end.position <= Len(src)

\* does s hold p at offset l
BeginsWith(s, l, p) == \A i \in 1..Len(p) : l + i <= Len(s) /\ s[l + i] = p[i]

\* C6: an exact kind of literal p matches at l exactly when s holds p at
\* offset l, with the span [l, l + len(p)); otherwise it returns None.
C6_ExactMatchesLiteral ==
    \A t \in Threads :
        Lexed(t) /\ KindOf(t) \in ExactKinds =>
            inner[t] =
                IF BeginsWith(src, call[t].location.position, Decl(KindOf(t)).pattern)
                THEN Some([start |-> call[t].location,
                           end |-> [position |-> call[t].location.position
                                                    + Len(Decl(KindOf(t)).pattern)]])
                ELSE None

\* Let matched [0, 3) of "let x = 1"
C6_Witness ==
    \E t \in Threads :
        /\ Lexed(t)
        /\ KindOf(t) = "Let"
        /\ src = <<"l", "e", "t", " ", "x", " ", "=", " ", "1">>
        /\ inner[t] = Some([start |-> [position |-> 0], end |-> [position |-> 3]])

\* the kinds whose declaration is sound: the pattern compiles and has the
\* capture group
SoundRegex(k) ==
    /\ k \in RegexKinds
    /\ RegexNew(Decl(k).pattern).ok
    /\ Decl(k).cap <= RegexNew(Decl(k).pattern).ngroups

\* the extent of group c in the match of pattern r that begins at offset l
\* of s, moved by l; None when r does not match there
AnchoredAt(r, c, s, l, found) ==
    IF found = <<>> THEN None
    ELSE GroupRange(l, CapturesGet([whole |-> <<0, found[1].pos>>,
                                    caps |-> found[1].caps], c))

AnchoredGroup(r, c, s, l) ==
    AnchoredAt(r, c, s, l,
               Match(RegexNew(r).prog, Slice(s, l, Len(s)),
                     [pos |-> 0, caps |-> [g \in 1..RegexNew(r).ngroups |-> Unset]]))

\* C7: a regex kind of pattern r and capture index c matches at l exactly
\* when r matches s beginning at l, and the span is the extent of group c
\* of that match.
C7_RegexAnchoredAtLocation ==
    \A t \in Threads :
        Lexed(t) /\ SoundRegex(KindOf(t)) =>
            inner[t] = AnchoredGroup(Decl(KindOf(t)).pattern, Decl(KindOf(t)).cap,
                                     src, call[t].location.position)

Let_debug == <<"L", "e", "t", "(", "\"", "l", "e", "t", "\"", ")">>
Let_unquoted == <<"l", "e", "t">>
Let_as_declared == <<"\"", "l", "e", "t", "\"">>

OnLet03(t) ==
    /\ call[t].kind = "Let"
    /\ src = <<"l", "e", "t">>
    /\ call[t].range = [start |-> [position |-> 0], end |-> [position |-> 3]]

\* C8 as stated: for Let on "let", span [0, 3), print_debug writes
\* Let("let") and print_display writes let, without quotes.
C8_LetDisplayUnquoted ==
    \A t \in Threads :
        /\ Printed(t, "print_debug") /\ OnLet03(t) => ret[t] = Some(Let_debug)
        /\ Printed(t, "print_display") /\ call[t].kind = "Let" => ret[t] = Some(Let_unquoted)

\* C8: for Let on "let", span [0, 3), print_debug writes Let("let");
\* print_display writes "let", the literal as the declaration writes it,
\* double quotes included, whatever the source and the span.
C8_LetDisplayAsDeclared ==
    \A t \in Threads :
        /\ Printed(t, "print_debug") /\ OnLet03(t) => ret[t] = Some(Let_debug)
        /\ Printed(t, "print_display") /\ call[t].kind = "Let" => ret[t] = Some(Let_as_declared)

\* Let was displayed for the span [0, 3) of "let"
C8_Witness ==
    \E t \in Threads :
        /\ Printed(t, "print_display")
        /\ OnLet03(t)
        /\ ret[t] = Some(Let_as_declared)

\* C9: under any interleaving a regex kind's pattern is compiled at most
\* once, and a call that matches does so against the one compiled pattern
\* in the cell, never against a cell not yet or only partly initialised.
C9_CompiledOnce ==
    /\ \A k \in RegexKinds : compiles[k] <= 1
    /\ \A t \in Threads :
          pc[t] = "lex" =>
              /\ obs[t] = Ready(1)
              /\ cell[KindOf(t)] = obs[t]

\* two threads are matching against the one compiled pattern of Px
C9_Witness ==
    /\ \A t \in Threads : pc[t] = "lex" /\ KindOf(t) = "Px" /\ obs[t] = Ready(1)
    /\ compiles["Px"] = 1

\* the declarations that are pattern-definition errors
Malformed(k) == k \in RegexKinds /\ ~RegexNew(Decl(k).pattern).ok
NoSuchGroup(k) ==
    /\ k \in RegexKinds
    /\ RegexNew(Decl(k).pattern).ok
    /\ Decl(k).cap > RegexNew(Decl(k).pattern).ngroups

====
